---- MODULE Spec2Model ----
(***************************************************************************)
(* The three scripts of the ServiceNow connector as one state machine:     *)
(*   servicenow_getallpolicydocuments.py  (script = "discover")            *)
(*   servicenow_upload_pdfs_new.py        (script = "upload")              *)
(*   extract_pdf_text.py                  (script = "extract")             *)
(* One run executes one script.  Remote calls answer nondeterministically. *)
(***************************************************************************)
EXTENDS Integers, Sequences, FiniteSets, TLC

VARIABLES
    script,               \* which script this run executes
    env,                  \* the three settings as os.getenv returns them
    PDF_SUPPORT,          \* whether the PyPDF2 import succeeded
    pc,                   \* position of the run
    missing_vars,         \* module-level list of missing settings
    exitStatus,           \* -1 while running, else the process exit status
    netLog,               \* every remote call issued, in order
    session,              \* retriever.session: "None", "open" or "closed"
    created,              \* number of aiohttp sessions constructed
    closed,               \* number of session.close() calls
    articles,             \* collect_pdf_attachments: articles
    artIdx,               \* collect_pdf_attachments: position of the article loop
    attResp,              \* what get_article_attachments returned, per article
    all_pdf_attachments,  \* collect_pdf_attachments: accumulated pairs
    top_10_pdfs,          \* main: the selected refs
    i,                    \* main: position of the render loop
    last,                 \* main: pdf_content / pdf_text / preview of the last iteration
    out,                  \* counts of the lines printed
    outcome,              \* how main ended
    pdf_files,            \* upload main: number of candidate files found by glob
    fileIdx,              \* upload main / extract main: position of the file loop
    article_id,           \* upload main: id returned for the current file
    kb,                   \* remote knowledge base: articles created by the upload run
    fileStatus,           \* upload main: how each candidate file ended
    disk                  \* extract main: the two candidate files and what was written

vars == << script, env, PDF_SUPPORT, pc, missing_vars, exitStatus, netLog, session,
           created, closed, articles, artIdx, attResp, all_pdf_attachments,
           top_10_pdfs, i, last, out, outcome, pdf_files, fileIdx, article_id, kb,
           fileStatus, disk >>

discoverVars == << session, created, closed, articles, artIdx, attResp,
                   all_pdf_attachments, top_10_pdfs, i, last >>
uploadVars == << pdf_files, article_id, kb, fileStatus >>

----------------------------------------------------------------------------
\* Bounds of the model
MaxArticles == 3
MaxFiles == 3

\* Program constants
TopN == 10
ClientTimeoutTotal == 30
PreviewChars == 500
ArticleLimit == 100

Min(a, b) == IF a < b THEN a ELSE b

----------------------------------------------------------------------------
\* Settings: os.getenv gives None for an unset variable, else its string.
EnvValues == {"None", "", "v"}
SettingNames == <<"SERVICENOW_INSTANCE_URL", "SERVICENOW_USERNAME", "SERVICENOW_PASSWORD">>

\* Python truthiness of a setting: None and "" are falsy.
Truthy(v) == v # "None" /\ v # ""

\* Plausible slip: test "is None" instead of "not X" (an empty value passes).
missing_vars_isNone(e) ==
    LET m1 == IF e.url = "None" THEN <<SettingNames[1]>> ELSE <<>>
        m2 == IF e.user = "None" THEN Append(m1, SettingNames[2]) ELSE m1
    IN  IF e.pass = "None" THEN Append(m2, SettingNames[3]) ELSE m2

\* lines 36-42 of both ServiceNow scripts
compute_missing_vars(e) ==
    LET m1 == IF ~Truthy(e.url) THEN <<SettingNames[1]>> ELSE <<>>
        m2 == IF ~Truthy(e.user) THEN Append(m1, SettingNames[2]) ELSE m1
    IN  IF ~Truthy(e.pass) THEN Append(m2, SettingNames[3]) ELSE m2

----------------------------------------------------------------------------
\* Remote answers.  "silent" is a server that never responds.
AnswerKinds == {"ok", "http_error", "exception", "silent"}

\* requests.post / requests.patch are called without a timeout argument.
RequestsTimeout == {}
\* aiohttp.ClientTimeout(total=30) is set on the session and so on every get.
SessionTimeout == {ClientTimeoutTotal}

\* What the calling code sees of an answer, given the timeout in force:
\* a silent server raises a timeout exception if a timeout is set, and
\* otherwise the call never returns.
Transport(kind, timeout) ==
    IF kind = "silent"
    THEN IF timeout = {} THEN "blocked" ELSE "exception"
    ELSE kind

----------------------------------------------------------------------------
\* File names are sequences of characters.
LowerChar(c) ==
    CASE c = "P" -> "p"
      [] c = "D" -> "d"
      [] c = "F" -> "f"
      [] c = "A" -> "a"
      [] OTHER -> c

\* str.lower()
Lower(s) == [k \in 1..Len(s) |-> LowerChar(s[k])]

\* str.endswith(suffix)
EndsWith(s, suffix) ==
    /\ Len(s) >= Len(suffix)
    /\ SubSeq(s, Len(s) - Len(suffix) + 1, Len(s)) = suffix

DotPdf == <<".", "p", "d", "f">>

\* Plausible slip: the suffix test without lower().
IsPdf_caseSensitive(attachment) ==
    \/ attachment.content_type = "application/pdf"
    \/ EndsWith(attachment.file_name, DotPdf)

\* line 212
IsPdf(attachment) ==
    \/ attachment.content_type = "application/pdf"
    \/ EndsWith(Lower(attachment.file_name), DotPdf)

\* The attachment lists a server may return for an article; sys_ids are
\* unique across articles.
Att(aid, k, name, ctype) ==
    [sys_id |-> aid * 10 + k, file_name |-> name, content_type |-> ctype]

AttachmentList(n, aid) ==
    CASE n = 0 -> <<>>
      [] n = 1 -> << Att(aid, 1, <<"a", ".", "d", "o", "c", "x">>, "application/pdf") >>
      [] n = 2 -> << Att(aid, 1, <<"a", ".", "d", "o", "c", "x">>, "text/plain"),
                     Att(aid, 2, <<"a", ".", "P", "D", "F">>, "") >>
      [] n = 3 -> << Att(aid, 1, <<"p", "d", "f">>, "text/plain"),
                     Att(aid, 2, <<"a", ".", "p", "d", "f", ".", "t", "x", "t">>, "application/PDF"),
                     Att(aid, 3, <<"a", ".", "p", "d">>, "") >>
      [] OTHER -> << Att(aid, 1, <<"a", ".", "p", "d", "f">>, "application/pdf"),
                     Att(aid, 2, <<"a", ".", "d", "o", "c", "x">>, "text/plain"),
                     Att(aid, 3, <<"a", ".", "P", "d", "f">>, "text/plain"),
                     Att(aid, 4, <<".", "p", "d", "f">>, ""),
                     Att(aid, 5, <<>>, "application/pdf"),
                     Att(aid, 6, <<"A", ".", "P", "D", "F">>, "application/pdf") >>
AttachmentListKinds == 0..4

ArticleList(n) == [k \in 1..n |-> [sys_id |-> k, short_description |-> "t"]]

----------------------------------------------------------------------------
\* PolicyDocumentRetriever.get_session: the session and the number created
get_session(s, c) ==
    IF s = "None"
    THEN [session |-> "open", created |-> c + 1]
    ELSE [session |-> s, created |-> c]

Call(op, arg, sess) == [op |-> op, arg |-> arg, sess |-> sess]

\* lines 206-220: the attachment loop, from position k
RECURSIVE AppendPdfs(_, _, _, _)
AppendPdfs(acc, article_info, attachments, k) ==
    IF k > Len(attachments)
    THEN acc
    ELSE AppendPdfs(IF IsPdf(attachments[k])
                    THEN Append(acc, <<article_info, attachments[k]>>)
                    ELSE acc,
                    article_info, attachments, k + 1)

\* lines 214-218
ArticleInfo(article) == [sys_id |-> article.sys_id, title |-> article.short_description]

\* Plausible slip: no cap on the selection.
Top_noCap(s) == s

\* line 252: pdf_attachments[:10]
Top(s) == SubSeq(s, 1, Min(TopN, Len(s)))

\* Bodies a download may return with status 200.
Bodies == {"empty", "malformed", "short", "long"}

\* Python truthiness of the downloaded value: None and b"" are falsy.
ContentTruthy(content) == content # "None" /\ content # "empty"

\* extract_text_from_pdf (discovery script): kind and length of the text
extract_text_from_pdf(pdf_content, support) ==
    IF ~support
    THEN [kind |-> "unavailable", len |-> 52]
    ELSE CASE pdf_content = "short" -> [kind |-> "text", len |-> 5]
           [] pdf_content = "long" -> [kind |-> "text", len |-> PreviewChars + 1]
           [] OTHER -> [kind |-> "error", len |-> 40]

\* lines 282-285
Preview(text) ==
    [shown |-> Min(text.len, PreviewChars), truncated |-> text.len > PreviewChars]

NoLast == [content |-> "None", text |-> "None", shown |-> 0, truncated |-> FALSE]
NoOut == [noArticles |-> 0, downloaded |-> 0, preview |-> 0, failed |-> 0,
          summary |-> -1, complete |-> 0]

----------------------------------------------------------------------------
Init ==
    /\ script \in {"discover", "upload", "extract"}
    /\ env \in [url : EnvValues, user : EnvValues, pass : EnvValues]
    /\ (script = "extract" => env = [url |-> "v", user |-> "v", pass |-> "v"])
    /\ PDF_SUPPORT \in BOOLEAN
    /\ (script = "upload" => PDF_SUPPORT)
    /\ pc = IF script = "extract" THEN "extract" ELSE "config"
    /\ missing_vars = <<>>
    /\ exitStatus = -1
    /\ netLog = <<>>
    /\ session = "None"
    /\ created = 0
    /\ closed = 0
    /\ articles = <<>>
    /\ artIdx = 0
    /\ attResp = <<>>
    /\ all_pdf_attachments = <<>>
    /\ top_10_pdfs = <<>>
    /\ i = 0
    /\ last = NoLast
    /\ out = NoOut
    /\ outcome = "running"
    /\ pdf_files = 0
    /\ fileIdx = IF script = "extract" THEN 1 ELSE 0
    /\ article_id = 0
    /\ kb = <<>>
    /\ fileStatus = <<>>
    /\ disk \in IF script = "extract"
                THEN [1..2 -> [file : {"missing", "empty", "unreadable", "malformed", "valid"},
                               written : {"none"}]]
                ELSE {[k \in 1..2 |-> [file |-> "missing", written |-> "none"]]}

\* Module level, lines 30-54 (discover) and 22-46 (upload): the settings check.
CheckConfig ==
    /\ pc = "config"
    /\ missing_vars' = compute_missing_vars(env)
    /\ IF missing_vars' # <<>>
       THEN /\ exitStatus' = 1
            /\ pc' = "exited"
       ELSE /\ exitStatus' = exitStatus
            /\ pc' = IF script = "discover" THEN "listArticles" ELSE "glob"
    /\ UNCHANGED << script, env, PDF_SUPPORT, netLog, out, outcome, fileIdx, disk >>
    /\ UNCHANGED discoverVars
    /\ UNCHANGED uploadVars

----------------------------------------------------------------------------
\* Discovery script

\* main lines 232-237, collect_pdf_attachments lines 186-194 and
\* get_all_knowledge_articles: the one listing call.
ListArticles ==
    /\ pc = "listArticles"
    /\ LET gs == get_session(session, created) IN
       \E kind \in AnswerKinds, n \in 0..MaxArticles :
          LET seen == Transport(kind, SessionTimeout)
              result == IF seen = "ok" THEN ArticleList(n) ELSE <<>>
          IN  /\ (kind # "ok" => n = 0)
              /\ session' = gs.session
              /\ created' = gs.created
              /\ netLog' = Append(netLog, Call("listArticles", ArticleLimit, gs.session))
              /\ articles' = result
              /\ IF result = <<>>
                 THEN /\ out' = [out EXCEPT !.noArticles = @ + 1]
                      /\ artIdx' = artIdx
                      /\ pc' = "select"
                 ELSE /\ out' = out
                      /\ artIdx' = 1
                      /\ pc' = "listAttachments"
    /\ UNCHANGED << script, env, PDF_SUPPORT, missing_vars, exitStatus, closed, attResp,
                    all_pdf_attachments, top_10_pdfs, i, last, outcome, fileIdx, disk >>
    /\ UNCHANGED uploadVars

\* collect_pdf_attachments lines 198-220: one iteration of the article loop,
\* with get_article_attachments.
ListAttachments ==
    /\ pc = "listAttachments"
    /\ artIdx <= Len(articles)
    /\ LET gs == get_session(session, created)
           article == articles[artIdx]
       IN
       \E kind \in AnswerKinds, n \in AttachmentListKinds :
          LET seen == Transport(kind, SessionTimeout)
              attachments == IF seen = "ok" THEN AttachmentList(n, article.sys_id) ELSE <<>>
          IN  /\ (kind # "ok" => n = 0)
              /\ session' = gs.session
              /\ created' = gs.created
              /\ netLog' = Append(netLog, Call("listAttachments", article.sys_id, gs.session))
              /\ attResp' = Append(attResp, attachments)
              /\ all_pdf_attachments' =
                     AppendPdfs(all_pdf_attachments, ArticleInfo(article), attachments, 1)
              /\ IF artIdx < Len(articles)
                 THEN /\ artIdx' = artIdx + 1
                      /\ pc' = "listAttachments"
                 ELSE /\ artIdx' = artIdx
                      /\ pc' = "select"
    /\ UNCHANGED << script, env, PDF_SUPPORT, missing_vars, exitStatus, closed, articles,
                    top_10_pdfs, i, last, out, outcome, fileIdx, disk >>
    /\ UNCHANGED uploadVars

\* main lines 239-254: the early return, or the selection of the top 10.
Select ==
    /\ pc = "select"
    /\ IF all_pdf_attachments = <<>>
       THEN /\ outcome' = "empty"
            /\ top_10_pdfs' = top_10_pdfs
            /\ i' = i
            /\ pc' = "finally"
       ELSE /\ outcome' = outcome
            /\ top_10_pdfs' = Top(all_pdf_attachments)
            /\ i' = 1
            /\ pc' = "render"
    /\ UNCHANGED << script, env, PDF_SUPPORT, missing_vars, exitStatus, netLog, session,
                    created, closed, articles, artIdx, attResp, all_pdf_attachments,
                    last, out, fileIdx, disk >>
    /\ UNCHANGED uploadVars

\* Plausible slip: a failed download ends the loop.
AfterItem_breakOnFailure(content) ==
    IF ContentTruthy(content) /\ i < Len(top_10_pdfs)
    THEN [pc |-> "render", i |-> i + 1]
    ELSE [pc |-> "finish", i |-> i]

\* Plausible slip: a failed download is tried again.
AfterItem_retryOnFailure(content) ==
    IF content = "None"
    THEN [pc |-> "render", i |-> i]
    ELSE IF i < Len(top_10_pdfs)
         THEN [pc |-> "render", i |-> i + 1]
         ELSE [pc |-> "finish", i |-> i]

\* line 257: the loop moves on whatever the item's result was
AfterItem(content) ==
    IF i < Len(top_10_pdfs)
    THEN [pc |-> "render", i |-> i + 1]
    ELSE [pc |-> "finish", i |-> i]

\* main lines 257-289: one iteration of the render loop, with download_attachment.
DownloadAndRender ==
    /\ pc = "render"
    /\ i <= Len(top_10_pdfs)
    /\ LET gs == get_session(session, created)
           attachment == top_10_pdfs[i][2]
       IN
       \E kind \in AnswerKinds, body \in Bodies :
          LET seen == Transport(kind, SessionTimeout)
              pdf_content == IF seen = "ok" THEN body ELSE "None"
              pdf_text == extract_text_from_pdf(pdf_content, PDF_SUPPORT)
              nxt == AfterItem(pdf_content)
          IN  /\ (kind # "ok" => body = "empty")
              /\ session' = gs.session
              /\ created' = gs.created
              /\ netLog' = Append(netLog, Call("fetchAttachmentBytes", attachment.sys_id, gs.session))
              /\ IF ContentTruthy(pdf_content)
                 THEN /\ last' = [content |-> pdf_content, text |-> pdf_text.kind,
                                  shown |-> Preview(pdf_text).shown,
                                  truncated |-> Preview(pdf_text).truncated]
                      /\ out' = [out EXCEPT !.downloaded = @ + 1, !.preview = @ + 1]
                 ELSE /\ last' = [NoLast EXCEPT !.content = pdf_content]
                      /\ out' = [out EXCEPT
                                   !.downloaded = IF seen = "ok" THEN @ + 1 ELSE @,
                                   !.failed = @ + 1]
              /\ i' = nxt.i
              /\ pc' = nxt.pc
    /\ UNCHANGED << script, env, PDF_SUPPORT, missing_vars, exitStatus, closed, articles,
                    artIdx, attResp, all_pdf_attachments, top_10_pdfs, outcome, fileIdx,
                    disk >>
    /\ UNCHANGED uploadVars

\* main line 291: the closing line names the number of selected refs.
Finish ==
    /\ pc = "finish"
    /\ out' = [out EXCEPT !.summary = Len(top_10_pdfs)]
    /\ outcome' = "processed"
    /\ pc' = "finally"
    /\ UNCHANGED << script, env, PDF_SUPPORT, missing_vars, exitStatus, netLog, fileIdx, disk >>
    /\ UNCHANGED discoverVars
    /\ UNCHANGED uploadVars

\* Plausible slip: close() only after the render loop, not in a finally block.
Close_notOnEarlyReturn ==
    /\ pc = "finally"
    /\ IF session # "None" /\ outcome = "processed"
       THEN /\ session' = "closed"
            /\ closed' = closed + 1
       ELSE UNCHANGED << session, closed >>
    /\ pc' = "done"
    /\ exitStatus' = 0
    /\ UNCHANGED << script, env, PDF_SUPPORT, missing_vars, netLog, created, articles,
                    artIdx, attResp, all_pdf_attachments, top_10_pdfs, i, last, out,
                    outcome, fileIdx, disk >>
    /\ UNCHANGED uploadVars

\* main lines 296-298 with PolicyDocumentRetriever.close, then the process ends.
Close ==
    /\ pc = "finally"
    /\ IF session # "None"
       THEN /\ session' = "closed"
            /\ closed' = closed + 1
       ELSE UNCHANGED << session, closed >>
    /\ pc' = "done"
    /\ exitStatus' = 0
    /\ UNCHANGED << script, env, PDF_SUPPORT, missing_vars, netLog, created, articles,
                    artIdx, attResp, all_pdf_attachments, top_10_pdfs, i, last, out,
                    outcome, fileIdx, disk >>
    /\ UNCHANGED uploadVars

\* main lines 293-294: a statement of the try block raises after the first
\* remote call (a record that is no mapping, a print that fails); the except
\* clause reports it and control reaches the finally block.
RaiseInMain ==
    /\ pc \in {"listAttachments", "select", "render", "finish"}
    /\ outcome' = "error"
    /\ pc' = "finally"
    /\ UNCHANGED << script, env, PDF_SUPPORT, missing_vars, exitStatus, netLog, out, fileIdx,
                    disk >>
    /\ UNCHANGED discoverVars
    /\ UNCHANGED uploadVars

DiscoverNext ==
    \/ ListArticles
    \/ ListAttachments
    \/ Select
    \/ DownloadAndRender
    \/ Finish
    \/ Close

----------------------------------------------------------------------------
\* Upload script

\* Plausible slip: a failed step ends the file loop (break instead of continue).
NextFile_break(failed) ==
    IF ~failed /\ fileIdx < pdf_files
    THEN [pc |-> "create", fileIdx |-> fileIdx + 1]
    ELSE [pc |-> "complete", fileIdx |-> fileIdx]

\* line 205 with the continue statements of lines 225 and 231: the next
\* candidate file, or the end of the loop
NextFile(failed) ==
    IF fileIdx < pdf_files
    THEN [pc |-> "create", fileIdx |-> fileIdx + 1]
    ELSE [pc |-> "complete", fileIdx |-> fileIdx]

\* main lines 188-202: the candidate files; no file ends the run at once.
FindFiles ==
    /\ pc = "glob"
    /\ \E n \in 0..MaxFiles :
          /\ pdf_files' = n
          /\ IF n = 0
             THEN /\ pc' = "done"
                  /\ exitStatus' = 0
                  /\ fileIdx' = fileIdx
             ELSE /\ pc' = "create"
                  /\ exitStatus' = exitStatus
                  /\ fileIdx' = 1
    /\ UNCHANGED << script, env, PDF_SUPPORT, missing_vars, netLog, out, outcome, article_id,
                    kb, fileStatus, disk >>
    /\ UNCHANGED discoverVars

\* main lines 205-225 with create_knowledge_article.
CreateArticle ==
    /\ pc = "create"
    /\ \E kind \in AnswerKinds :
          LET seen == Transport(kind, RequestsTimeout)
              nxt == NextFile(TRUE)
          IN  /\ netLog' = Append(netLog, Call("createArticle", fileIdx, "requests"))
              /\ CASE seen = "blocked" ->
                        /\ pc' = "blocked"
                        /\ UNCHANGED << fileIdx, article_id, kb, fileStatus >>
                   [] seen = "ok" ->
                        /\ kb' = Append(kb, [file |-> fileIdx, workflow_state |-> "draft",
                                             attachments |-> 0])
                        /\ article_id' = Len(kb) + 1
                        /\ pc' = "upload"
                        /\ UNCHANGED << fileIdx, fileStatus >>
                   [] OTHER ->
                        /\ fileStatus' = Append(fileStatus, "create_failed")
                        /\ article_id' = 0
                        /\ pc' = nxt.pc
                        /\ fileIdx' = nxt.fileIdx
                        /\ kb' = kb
    /\ UNCHANGED << script, env, PDF_SUPPORT, missing_vars, exitStatus, out, outcome,
                    pdf_files, disk >>
    /\ UNCHANGED discoverVars

\* Plausible slip: no continue after a failed upload, so the article is
\* published without its attachment.
UploadAttachment_publishAnyway ==
    /\ pc = "upload"
    /\ \E kind \in AnswerKinds \cup {"open_failed"} :
          LET seen == Transport(kind, RequestsTimeout)
          IN  /\ netLog' = IF kind = "open_failed"
                           THEN netLog
                           ELSE Append(netLog, Call("uploadAttachment", article_id, "requests"))
              /\ CASE seen = "blocked" ->
                        /\ pc' = "blocked"
                        /\ UNCHANGED << fileIdx, kb, fileStatus >>
                   [] seen = "ok" ->
                        /\ kb' = [kb EXCEPT ![article_id].attachments = @ + 1]
                        /\ pc' = "publish"
                        /\ UNCHANGED << fileIdx, fileStatus >>
                   [] OTHER ->
                        /\ pc' = "publish"
                        /\ UNCHANGED << fileIdx, kb, fileStatus >>
    /\ UNCHANGED << script, env, PDF_SUPPORT, missing_vars, exitStatus, out, outcome,
                    pdf_files, article_id, disk >>
    /\ UNCHANGED discoverVars

\* main lines 227-231 with upload_attachment; the local file may fail to open,
\* and then no request is sent.
UploadAttachment ==
    /\ pc = "upload"
    /\ \E kind \in AnswerKinds \cup {"open_failed"} :
          LET seen == Transport(kind, RequestsTimeout)
              nxt == NextFile(TRUE)
          IN  /\ netLog' = IF kind = "open_failed"
                           THEN netLog
                           ELSE Append(netLog, Call("uploadAttachment", article_id, "requests"))
              /\ CASE seen = "blocked" ->
                        /\ pc' = "blocked"
                        /\ UNCHANGED << fileIdx, kb, fileStatus >>
                   [] seen = "ok" ->
                        /\ kb' = [kb EXCEPT ![article_id].attachments = @ + 1]
                        /\ pc' = "publish"
                        /\ UNCHANGED << fileIdx, fileStatus >>
                   [] OTHER ->
                        /\ fileStatus' = Append(fileStatus, "upload_failed")
                        /\ pc' = nxt.pc
                        /\ fileIdx' = nxt.fileIdx
                        /\ kb' = kb
    /\ UNCHANGED << script, env, PDF_SUPPORT, missing_vars, exitStatus, out, outcome,
                    pdf_files, article_id, disk >>
    /\ UNCHANGED discoverVars

\* main lines 233-238 with publish_article.
PublishArticle ==
    /\ pc = "publish"
    /\ \E kind \in AnswerKinds :
          LET seen == Transport(kind, RequestsTimeout)
              nxt == NextFile(seen # "ok")
          IN  /\ netLog' = Append(netLog, Call("publishArticle", article_id, "requests"))
              /\ CASE seen = "blocked" ->
                        /\ pc' = "blocked"
                        /\ UNCHANGED << fileIdx, kb, fileStatus >>
                   [] seen = "ok" ->
                        /\ kb' = [kb EXCEPT ![article_id].workflow_state = "published"]
                        /\ fileStatus' = Append(fileStatus, "published")
                        /\ pc' = nxt.pc
                        /\ fileIdx' = nxt.fileIdx
                   [] OTHER ->
                        /\ fileStatus' = Append(fileStatus, "publish_failed")
                        /\ pc' = nxt.pc
                        /\ fileIdx' = nxt.fileIdx
                        /\ kb' = kb
    /\ UNCHANGED << script, env, PDF_SUPPORT, missing_vars, exitStatus, out, outcome,
                    pdf_files, article_id, disk >>
    /\ UNCHANGED discoverVars

\* main lines 240-241: the closing message, then the process ends.
UploadComplete ==
    /\ pc = "complete"
    /\ out' = [out EXCEPT !.complete = @ + 1]
    /\ pc' = "done"
    /\ exitStatus' = 0
    /\ UNCHANGED << script, env, PDF_SUPPORT, missing_vars, netLog, outcome, fileIdx, disk >>
    /\ UNCHANGED discoverVars
    /\ UNCHANGED uploadVars

UploadNext ==
    \/ FindFiles
    \/ CreateArticle
    \/ UploadAttachment
    \/ PublishArticle
    \/ UploadComplete

----------------------------------------------------------------------------
\* Extraction script

\* line 39-42: the two candidate files
NumPdfFiles == 2

\* extract_text_from_pdf (extraction script): what the returned string is
extract_text_from_path(file, support) ==
    IF ~support
    THEN "unavailable"
    ELSE IF file = "valid" THEN "text" ELSE "error"

\* main lines 44-67: one iteration of the file loop.  Writing the sibling
\* text file is outside any try block.
ProcessFile ==
    /\ pc = "extract"
    /\ fileIdx <= NumPdfFiles
    /\ LET file == disk[fileIdx].file
           more == fileIdx < NumPdfFiles
       IN
       \E write \in {"ok", "fail"} :
          IF file \in {"missing", "empty"}
          THEN /\ write = "ok"
               /\ disk' = [disk EXCEPT ![fileIdx].written = "skipped"]
               /\ fileIdx' = IF more THEN fileIdx + 1 ELSE fileIdx
               /\ pc' = IF more THEN "extract" ELSE "done"
               /\ exitStatus' = IF more THEN exitStatus ELSE 0
               /\ outcome' = outcome
          ELSE LET text == extract_text_from_path(file, PDF_SUPPORT) IN
               IF write = "ok"
               THEN /\ disk' = [disk EXCEPT ![fileIdx].written = text]
                    /\ fileIdx' = IF more THEN fileIdx + 1 ELSE fileIdx
                    /\ pc' = IF more THEN "extract" ELSE "done"
                    /\ exitStatus' = IF more THEN exitStatus ELSE 0
                    /\ outcome' = outcome
               ELSE /\ disk' = disk
                    /\ fileIdx' = fileIdx
                    /\ pc' = "done"
                    /\ exitStatus' = 1
                    /\ outcome' = "uncaught"
    /\ UNCHANGED << script, env, PDF_SUPPORT, missing_vars, netLog, out >>
    /\ UNCHANGED discoverVars
    /\ UNCHANGED uploadVars

----------------------------------------------------------------------------
Next ==
    \/ CheckConfig
    \/ DiscoverNext
    \/ UploadNext
    \/ ProcessFile

Spec == Init /\ [][Next]_vars

\* The discovery run with exceptions raised inside main's try block.
NextFault ==
    \/ Next
    \/ RaiseInMain

SpecFault == Init /\ [][NextFault]_vars

----------------------------------------------------------------------------
\* Helpers of the properties
ArgsOf(op) ==
    LET calls == SelectSeq(netLog, LAMBDA c : c.op = op)
    IN  [k \in 1..Len(calls) |-> calls[k].arg]

IdsOf(pairs) == [k \in 1..Len(pairs) |-> pairs[k][2].sys_id]

IsPrefix(s, t) == Len(s) <= Len(t) /\ s = SubSeq(t, 1, Len(s))

NoRepeat(s) == \A a, b \in 1..Len(s) : s[a] = s[b] => a = b

CollectReturned == script = "discover" /\ pc \in {"select", "render", "finish", "finally", "done"}

LoopEnded == script = "discover" /\ pc \in {"finish", "finally", "done"}

\* The PDF predicate as the specification words it: the declared type, or the
\* last four characters are ".pdf" in any case.
SaysPdf(a) ==
    LET n == a.file_name
        L == Len(a.file_name)
    IN  \/ a.content_type = "application/pdf"
        \/ /\ L >= 4
           /\ n[L - 3] = "."
           /\ n[L - 2] \in {"p", "P"}
           /\ n[L - 1] \in {"d", "D"}
           /\ n[L] \in {"f", "F"}

PairsOfArticle(k) ==
    LET pdfs == SelectSeq(attResp[k], SaysPdf)
    IN  [j \in 1..Len(pdfs) |->
            << [sys_id |-> articles[k].sys_id, title |-> articles[k].short_description],
               pdfs[j] >>]

RECURSIVE ExpectedPairs(_)
ExpectedPairs(k) == IF k = 0 THEN <<>> ELSE ExpectedPairs(k - 1) \o PairsOfArticle(k)

\* C1: collect_pdf_attachments returns exactly the (article, attachment) pairs
\* whose attachment is a PDF by declared type or by case-insensitive ".pdf"
\* suffix, in article order and within an article in attachment order; once it
\* has returned, every listed article's attachment list has been filtered.
C1_CollectExactlyPdfPairs ==
    /\ script = "discover" => all_pdf_attachments = ExpectedPairs(Len(attResp))
    /\ CollectReturned => Len(attResp) = Len(articles)

C1_Witness ==
    /\ CollectReturned
    /\ Len(articles) >= 2
    /\ \E k \in 1..Len(attResp) : attResp[k] = AttachmentList(2, articles[k].sys_id)
    /\ attResp[Len(attResp)] = AttachmentList(4, articles[Len(attResp)].sys_id)
    /\ Len(all_pdf_attachments) >= 6

\* C2: the download calls are issued for the first min(M, 10) discovered PDF
\* attachments, in discovery order, and for no attachment after the tenth.
C2_FetchFirstTen ==
    /\ script = "discover" => /\ IsPrefix(ArgsOf("fetchAttachmentBytes"), IdsOf(all_pdf_attachments))
                              /\ Len(ArgsOf("fetchAttachmentBytes")) <= TopN
    /\ (LoopEnded /\ outcome # "empty") =>
           Len(ArgsOf("fetchAttachmentBytes")) = Min(Len(all_pdf_attachments), TopN)
    /\ (script = "discover" /\ ~CollectReturned) => ArgsOf("fetchAttachmentBytes") = <<>>

C2_Witness ==
    /\ script = "discover"
    /\ pc = "done"
    /\ Len(all_pdf_attachments) > TopN
    /\ Len(ArgsOf("fetchAttachmentBytes")) = TopN

\* C3: a failed download or unparsable bytes for one selected ref does not end
\* the batch: when the loop has ended every selected ref has had its own
\* download call and its own report, whatever the results were.
C3_FailureDoesNotAbortBatch ==
    /\ (LoopEnded /\ outcome # "empty") =>
           /\ ArgsOf("fetchAttachmentBytes") = IdsOf(top_10_pdfs)
           /\ out.preview + out.failed = Len(top_10_pdfs)
    /\ (script = "discover" /\ pc = "render") =>
           /\ ArgsOf("fetchAttachmentBytes") = IdsOf(SubSeq(top_10_pdfs, 1, i - 1))
           /\ out.preview + out.failed = i - 1

C3_Witness ==
    /\ script = "discover"
    /\ pc = "done"
    /\ Len(top_10_pdfs) >= 3
    /\ out.failed = 1
    /\ out.downloaded = out.preview
    /\ out.preview >= 2
    /\ last.text = "error"
    /\ Len(ArgsOf("fetchAttachmentBytes")) = Len(top_10_pdfs)

\* C4: in the upload run a failed create, upload or publish ends only that
\* file's processing: every candidate file gets exactly one create call, a file
\* whose three steps succeed is published with its attachment, and the run
\* reaches its closing message with exit status 0.
C4_UploadFailureSkipsOnlyThatFile ==
    /\ (script = "upload" /\ pc = "create") => Len(fileStatus) = fileIdx - 1
    /\ (script = "upload" /\ pc \in {"upload", "publish"}) => Len(fileStatus) = fileIdx - 1
    /\ (script = "upload" /\ pc \in {"complete", "done"} /\ pdf_files > 0) =>
           /\ ArgsOf("createArticle") = [f \in 1..pdf_files |-> f]
           /\ Len(fileStatus) = pdf_files
           /\ \A f \in 1..pdf_files :
                  fileStatus[f] = "published" <=>
                      \E a \in 1..Len(kb) : /\ kb[a].file = f
                                            /\ kb[a].workflow_state = "published"
                                            /\ kb[a].attachments = 1
    /\ (script = "upload" /\ pc = "done" /\ pdf_files > 0) =>
           out.complete = 1 /\ exitStatus = 0

C4_Witness ==
    /\ script = "upload"
    /\ pc = "done"
    /\ out.complete = 1
    /\ fileStatus = <<"create_failed", "upload_failed", "published">>

SettingValue(name) ==
    CASE name = "SERVICENOW_INSTANCE_URL" -> env.url
      [] name = "SERVICENOW_USERNAME" -> env.user
      [] name = "SERVICENOW_PASSWORD" -> env.pass

MissingSettings ==
    {name \in {"SERVICENOW_INSTANCE_URL", "SERVICENOW_USERNAME", "SERVICENOW_PASSWORD"} :
        SettingValue(name) \in {"None", ""}}

\* C6: in both ServiceNow scripts a missing or empty setting ends the process
\* with status 1 before any remote call, and the reported list names exactly
\* the missing settings; with all three set the run proceeds.
C6_MissingSettingsExit ==
    script \in {"discover", "upload"} =>
        /\ pc = "config" => (netLog = <<>> /\ exitStatus = -1)
        /\ (pc # "config" /\ MissingSettings # {}) =>
               /\ pc = "exited"
               /\ exitStatus = 1
               /\ netLog = <<>>
               /\ {missing_vars[k] : k \in 1..Len(missing_vars)} = MissingSettings
               /\ Len(missing_vars) = Cardinality(MissingSettings)
        /\ (pc # "config" /\ MissingSettings = {}) =>
               /\ pc # "exited"
               /\ exitStatus # 1
               /\ missing_vars = <<>>

C6_Witness ==
    /\ script = "upload"
    /\ pc = "exited"
    /\ env = [url |-> "", user |-> "v", pass |-> "None"]
    /\ missing_vars = <<"SERVICENOW_INSTANCE_URL", "SERVICENOW_PASSWORD">>

\* Progress of a discovery run: its position plus the calls it has issued.
Rank(p) ==
    CASE p = "config" -> 0
      [] p = "listArticles" -> 1
      [] p = "listAttachments" -> 2
      [] p = "select" -> 3
      [] p = "render" -> 4
      [] p = "finish" -> 5
      [] p = "finally" -> 6
      [] OTHER -> 7

Measure == Rank(pc) + Len(netLog)

C7_Counts ==
    script = "discover" =>
        /\ Len(ArgsOf("listArticles")) <= 1
        /\ NoRepeat(ArgsOf("listAttachments"))
        /\ NoRepeat(ArgsOf("fetchAttachmentBytes"))
        /\ Measure <= 8 + MaxArticles + TopN
        /\ pc \notin {"done", "exited"} => ENABLED Next
        /\ pc = "done" =>
               /\ outcome \in {"empty", "processed"}
               /\ exitStatus = 0
               /\ Len(ArgsOf("listArticles")) = 1
               /\ ArgsOf("listAttachments") = [k \in 1..Len(articles) |-> articles[k].sys_id]
               /\ ArgsOf("fetchAttachmentBytes") = IdsOf(top_10_pdfs)

C7_Forward == script = "discover" => Measure' > Measure

\* C7: whatever the remote calls answer, the discovery run ends with a
\* processed or empty outcome and no call is retried: one listing call, one
\* attachment-listing call per listed article, one download call per selected
\* ref.  Termination: a run that has not ended can always take a step, and
\* every step moves the run forward.
C7_DiscoveryTerminatesWithoutRetry == []C7_Counts /\ [][C7_Forward]_vars

C7_Witness ==
    /\ script = "discover"
    /\ pc = "done"
    /\ outcome = "processed"
    /\ Len(articles) >= 3
    /\ \E k \in 1..Len(attResp) : attResp[k] = <<>>
    /\ out.failed >= 1
    /\ out.preview >= 1
    /\ Len(netLog) = 1 + Len(articles) + Len(top_10_pdfs)

\* C8: the closing summary of the discovery run counts the selected refs whose
\* download succeeded (and the rest as failures).
C8_SummaryCountsSuccesses ==
    (script = "discover" /\ pc = "done" /\ outcome = "processed") =>
        out.summary = out.downloaded

\* C9: every remote call of every script is made under the per-request
\* timeout, so no run waits forever on a server that never responds.
C9_NoCallBlocksForever == pc # "blocked"

\* C10: the extraction script always ends with status 0 and handles both
\* candidate files, whatever their state and whatever the write of the text
\* file does.
C10_ExtractAlwaysExitsZero ==
    (script = "extract" /\ pc = "done") =>
        /\ exitStatus = 0
        /\ \A k \in 1..NumPdfFiles : disk[k].written # "none"

\* C11: every selected ref whose download answered 200, with any body and so
\* with a zero-length body too, gets a preview, and "Failed to download" is
\* reported only for a download that itself failed.
C11_PreviewForEverySuccessfulFetch ==
    script = "discover" =>
        /\ out.preview = out.downloaded
        /\ out.failed = Len(ArgsOf("fetchAttachmentBytes")) - out.downloaded

\* The upload run's calls follow create, upload, publish for one file.
UploadCallsInOrder ==
    \A k \in 1..Len(netLog) :
        /\ netLog[k].op = "uploadAttachment" =>
               /\ k > 1
               /\ netLog[k - 1].op = "createArticle"
               /\ netLog[k].arg \in 1..Len(kb)
               /\ kb[netLog[k].arg].file = netLog[k - 1].arg
        /\ netLog[k].op = "publishArticle" =>
               /\ k > 2
               /\ netLog[k - 1].op = "uploadAttachment"
               /\ netLog[k - 1].arg = netLog[k].arg
               /\ netLog[k - 2].op = "createArticle"
               /\ netLog[k].arg \in 1..Len(kb)
               /\ kb[netLog[k].arg].file = netLog[k - 2].arg
               /\ kb[netLog[k].arg].attachments = 1

\* An article whose attachment upload failed stays an unpublished draft.
FailedUploadStaysDraft ==
    \A f \in 1..Len(fileStatus) :
        fileStatus[f] = "upload_failed" =>
            \E a \in 1..Len(kb) :
                /\ kb[a].file = f
                /\ kb[a].workflow_state = "draft"
                /\ kb[a].attachments = 0
                /\ \A k \in 1..Len(netLog) : ~(netLog[k].op = "publishArticle" /\ netLog[k].arg = a)

C12_Order ==
    script = "upload" =>
        /\ UploadCallsInOrder
        /\ FailedUploadStaysDraft
        /\ \A a \in 1..Len(kb) : kb[a].workflow_state = "published" => kb[a].attachments = 1
        /\ \A k \in 1..Len(netLog) :
               netLog[k].op \in {"createArticle", "uploadAttachment", "publishArticle"}

\* No step deletes or rolls back an article.
C12_NoRollback ==
    script = "upload" =>
        /\ Len(kb') >= Len(kb)
        /\ \A a \in 1..Len(kb) :
               /\ kb'[a].file = kb[a].file
               /\ kb'[a].attachments >= kb[a].attachments
               /\ kb[a].workflow_state = "published" => kb'[a].workflow_state = "published"

\* C12: for each candidate file the calls come only in the order create,
\* upload, publish; the upload goes to the article id returned by that file's
\* create, publish is called only after both succeeded for that file, and an
\* article whose upload failed is never published, deleted or rolled back.
C12_CreateUploadPublishOrder == []C12_Order /\ [][C12_NoRollback]_vars

C12_Witness ==
    /\ script = "upload"
    /\ pc = "done"
    /\ fileStatus = <<"create_failed", "upload_failed", "published">>
    /\ Len(kb) = 2
    /\ kb[1] = [file |-> 2, workflow_state |-> "draft", attachments |-> 0]
    /\ kb[2] = [file |-> 3, workflow_state |-> "published", attachments |-> 1]
    /\ netLog[Len(netLog)] = Call("publishArticle", 2, "requests")

====
